---- MODULE Spec2Model ----
(***************************************************************************)
(* Model of Downloads/inventory_system.py: a process-wide mapping from     *)
(* item name to quantity (stock_data), mutated by add_item / remove_item,  *)
(* queried by get_qty / check_low_items and externalised as JSON text by   *)
(* save_data / load_data.                                                  *)
(*                                                                         *)
(* Python values are records [t, s, n]: t is the type name, s the text of  *)
(* a str (a sequence of one-character strings), n the value of an int or   *)
(* bool.  A dict is the sequence of its entries in insertion order.  A     *)
(* file is [exists, text], text being a sequence of characters.            *)
(***************************************************************************)
EXTENDS Integers, Sequences, FiniteSets, TLC

VARIABLES stock_data, files, last, added

vars == <<stock_data, files, last, added>>

(* ----------------------------- bounds --------------------------------- *)

\* largest absolute quantity an entry may reach (Python ints are unbounded)
MaxQty == 1

\* the same bound for the store-only specification
MaxQtyStore == 3

\* largest absolute integer passed as qty or threshold in the store-only
\* specification
MaxDeltaStore == 2

(* -------------------------- Python values ----------------------------- *)

PyStr(s) == [t |-> "str", s |-> s, n |-> 0]

PyInt(n) == [t |-> "int", s |-> <<>>, n |-> n]

PyBool(b) == [t |-> "bool", s |-> <<>>, n |-> IF b THEN 1 ELSE 0]

PyFloat(txt) == [t |-> "float", s |-> txt, n |-> 0]

PyNone == [t |-> "NoneType", s |-> <<>>, n |-> 0]

isinstance_str(x) == x.t = "str"

\* bool is a subclass of int: isinstance(True, int) is True
isinstance_int(x) == x.t \in {"int", "bool"}

Whitespace == {" ", "\t", "\n", "\r"}

RECURSIVE lstrip(_)
lstrip(s) ==
  IF s = <<>> THEN <<>>
  ELSE IF Head(s) \in Whitespace THEN lstrip(Tail(s)) ELSE s

RECURSIVE rstrip(_)
rstrip(s) ==
  IF s = <<>> THEN <<>>
  ELSE IF s[Len(s)] \in Whitespace THEN rstrip(SubSeq(s, 1, Len(s) - 1)) ELSE s

\* str.strip()
strip(s) == rstrip(lstrip(s))

(* ------------------------------ dict ---------------------------------- *)

\* position of key k in dict d, 0 when absent
DictIndex(d, k) ==
  IF \E i \in 1..Len(d) : d[i].k = k
  THEN CHOOSE i \in 1..Len(d) : d[i].k = k
  ELSE 0

\* a key of stock_data is a str; a value of another type never equals one
Lookup(d, item) == IF isinstance_str(item) THEN DictIndex(d, item.s) ELSE 0

DictHas(d, k) == DictIndex(d, k) # 0

\* d.get(k, default)
DictGet(d, k, default) == IF DictHas(d, k) THEN d[DictIndex(d, k)].v ELSE default

\* d[k] = v : an existing key keeps its position, a new key goes last
DictSet(d, k, v) ==
  IF DictHas(d, k)
  THEN [d EXCEPT ![DictIndex(d, k)] = [k |-> k, v |-> v]]
  ELSE Append(d, [k |-> k, v |-> v])

\* del d[k]
DictDel(d, k) == SelectSeq(d, LAMBDA e : e.k # k)

(* --------------------------- JSON text -------------------------------- *)

DigitChars == <<"0", "1", "2", "3", "4", "5", "6", "7", "8", "9">>

RECURSIVE IntDigits(_)
IntDigits(n) ==
  IF n < 10 THEN <<DigitChars[n + 1]>>
  ELSE IntDigits(n \div 10) \o <<DigitChars[(n % 10) + 1]>>

\* int.__repr__ as used by the JSON encoder
int_repr(n) == IF n < 0 THEN <<"-">> \o IntDigits(-n) ELSE IntDigits(n)

EscapeChar(c) ==
  CASE c = "\"" -> <<"\\", "\"">>
    [] c = "\\" -> <<"\\", "\\">>
    [] c = "\n" -> <<"\\", "n">>
    [] c = "\r" -> <<"\\", "r">>
    [] c = "\t" -> <<"\\", "t">>
    [] OTHER -> <<c>>

RECURSIVE EscapeAll(_)
EscapeAll(s) == IF s = <<>> THEN <<>> ELSE EscapeChar(Head(s)) \o EscapeAll(Tail(s))

\* json.encoder.encode_basestring (ensure_ascii=False)
encode_basestring(s) == <<"\"">> \o EscapeAll(s) \o <<"\"">>

RECURSIVE dump_items(_, _)
dump_items(d, i) ==
  IF i > Len(d) THEN <<>>
  ELSE (IF i > 1 THEN <<",">> ELSE <<>>)
       \o <<"\n", " ", " ">>
       \o encode_basestring(d[i].k) \o <<":", " ">> \o int_repr(d[i].v)
       \o dump_items(d, i + 1)

\* json.dump(stock_data, f, ensure_ascii=False, indent=2)
json_dump(d) ==
  IF d = <<>> THEN <<"{", "}">>
  ELSE <<"{">> \o dump_items(d, 1) \o <<"\n", "}">>

(* --------------------------- JSON parsing ------------------------------ *)
(* json.load restricted to the texts the program meets: an object whose    *)
(* members are string : integer.  Every text outside that shape that the   *)
(* model feeds it is a syntax error.                                       *)

RECURSIVE SkipWs(_, _)
SkipWs(txt, i) ==
  IF i <= Len(txt) /\ txt[i] \in Whitespace THEN SkipWs(txt, i + 1) ELSE i

Unescapes == {"\"", "\\", "/", "n", "r", "t"}

Unescape(c) ==
  CASE c = "n" -> "\n"
    [] c = "r" -> "\r"
    [] c = "t" -> "\t"
    [] OTHER -> c

\* json.decoder.py_scanstring (strict): i is the position after the opening quote
RECURSIVE scanstring(_, _, _)
scanstring(txt, i, acc) ==
  IF i > Len(txt) THEN [ok |-> FALSE, pos |-> i, s |-> <<>>]
  ELSE IF txt[i] = "\"" THEN [ok |-> TRUE, pos |-> i + 1, s |-> acc]
  ELSE IF txt[i] = "\\" THEN
    IF i + 1 > Len(txt) \/ txt[i + 1] \notin Unescapes
    THEN [ok |-> FALSE, pos |-> i, s |-> <<>>]
    ELSE scanstring(txt, i + 2, Append(acc, Unescape(txt[i + 1])))
  ELSE IF txt[i] \in {"\n", "\r", "\t"} THEN [ok |-> FALSE, pos |-> i, s |-> <<>>]
  ELSE scanstring(txt, i + 1, Append(acc, txt[i]))

IsDigit(c) == \E k \in 1..10 : DigitChars[k] = c

DigitValue(c) == (CHOOSE k \in 1..10 : DigitChars[k] = c) - 1

RECURSIVE DigitsEnd(_, _)
DigitsEnd(txt, i) ==
  IF i <= Len(txt) /\ IsDigit(txt[i]) THEN DigitsEnd(txt, i + 1) ELSE i

RECURSIVE DigitsValue(_, _, _, _)
DigitsValue(txt, i, e, acc) ==
  IF i >= e THEN acc ELSE DigitsValue(txt, i + 1, e, 10 * acc + DigitValue(txt[i]))

\* json.scanner NUMBER_RE  -?(0|[1-9]\d*)  with no fraction and no exponent
scan_number(txt, i) ==
  LET neg == i <= Len(txt) /\ txt[i] = "-"
      j == IF neg THEN i + 1 ELSE i
  IN IF j > Len(txt) \/ ~IsDigit(txt[j]) THEN [ok |-> FALSE, pos |-> i, n |-> 0]
     ELSE LET e == IF txt[j] = "0" THEN j + 1 ELSE DigitsEnd(txt, j)
              m == DigitsValue(txt, j, e, 0)
          IN IF e <= Len(txt) /\ txt[e] \in {".", "e", "E"}
             THEN [ok |-> FALSE, pos |-> e, n |-> 0]
             ELSE [ok |-> TRUE, pos |-> e, n |-> IF neg THEN 0 - m ELSE m]

\* json.decoder.JSONObject, members: i is the position of a member's opening quote
RECURSIVE parse_pairs(_, _, _)
parse_pairs(txt, i, acc) ==
  LET bad == [ok |-> FALSE, pos |-> i, val |-> <<>>]
  IN IF i > Len(txt) \/ txt[i] # "\"" THEN bad
     ELSE LET ks == scanstring(txt, i + 1, <<>>)
          IN IF ~ks.ok THEN bad
             ELSE LET c == SkipWs(txt, ks.pos)
                  IN IF c > Len(txt) \/ txt[c] # ":" THEN bad
                     ELSE LET num == scan_number(txt, SkipWs(txt, c + 1))
                          IN IF ~num.ok THEN bad
                             ELSE LET acc2 == DictSet(acc, ks.s, num.n)
                                      e == SkipWs(txt, num.pos)
                                  IN IF e > Len(txt) THEN bad
                                     ELSE IF txt[e] = "}"
                                       THEN [ok |-> TRUE, pos |-> e + 1, val |-> acc2]
                                     ELSE IF txt[e] = ","
                                       THEN parse_pairs(txt, SkipWs(txt, e + 1), acc2)
                                     ELSE bad

\* json.decoder.JSONObject: i is the position after the opening brace
JSONObject(txt, i) ==
  LET j == SkipWs(txt, i)
  IN IF j <= Len(txt) /\ txt[j] = "}"
     THEN [ok |-> TRUE, pos |-> j + 1, val |-> <<>>]
     ELSE parse_pairs(txt, j, <<>>)

\* json.load(f): the whole text must be one value, surrounded by whitespace only
json_load(txt) ==
  LET i == SkipWs(txt, 1)
  IN IF i > Len(txt) \/ txt[i] # "{" THEN [ok |-> FALSE, val |-> <<>>]
     ELSE LET obj == JSONObject(txt, i + 1)
          IN IF ~obj.ok \/ SkipWs(txt, obj.pos) <= Len(txt)
             THEN [ok |-> FALSE, val |-> <<>>]
             ELSE [ok |-> TRUE, val |-> obj.val]

(* ------------------------------ inputs --------------------------------- *)

\* item names that pass add_item's validation; the second one is not trimmed
\* and holds a character the JSON encoder escapes
Names == {<<"a">>, <<" ", "\"">>}

\* the empty and the whitespace-only name
BlankNames == {<<>>, <<" ">>}

AllNames == Names \cup BlankNames

Paths == {"inventory.json"}

\* texts an outside writer may leave in the file: none of them is JSON
Malformed == {<<"{">>, <<"{", "\"", "a", "\"", ":", " ", "1", ",", "}">>}

NonInts == {PyStr(<<"x">>), PyFloat(<<"1", ".", "5">>), PyNone}

Items == {PyStr(s) : s \in Names}

\* quantities and thresholds passed in the full specification
Qtys == {PyInt(0 - 1), PyInt(0), PyInt(1)}

ItemsStore == {PyStr(s) : s \in AllNames} \cup {PyNone}

QtysStore ==
  {PyInt(n) : n \in (0 - MaxDeltaStore)..MaxDeltaStore} \cup {PyBool(TRUE)} \cup NonInts

(* ------------------------------- state --------------------------------- *)

\* the call that produced the current state: its arguments, the quantity it
\* read for its item (current), the diagnostic it logged and its outcome
NoCall ==
  [op |-> "init", item |-> PyNone, qty |-> PyNone, threshold |-> PyNone,
   path |-> "", current |-> 0, outcome |-> "return", log |-> "none",
   audit |-> FALSE, retInt |-> 0, retList |-> <<>>]

\* history per name: the adds made to it since it was last absent
Fresh == [on |-> TRUE, any |-> FALSE, sum |-> 0]

Void == [on |-> FALSE, any |-> FALSE, sum |-> 0]

Init ==
  /\ stock_data = <<>>
  /\ files = [p \in Paths |-> [exists |-> FALSE, text |-> <<>>]]
  /\ last = NoCall
  /\ added = [k \in AllNames |-> Fresh]

(* ------------------------------ add_item ------------------------------- *)

\* variant: the name is tested for emptiness without strip()
add_item_invalid_item_nostrip(item) == ~isinstance_str(item) \/ item.s = <<>>

add_item_invalid_item(item) == ~isinstance_str(item) \/ strip(item.s) = <<>>

add_item_invalid_qty(qty) == ~isinstance_int(qty)

\* variant: the quantity is assigned instead of accumulated
add_item_value_overwrite(d, item, qty) == qty.n

add_item_value(d, item, qty) == DictGet(d, item.s, 0) + qty.n

\* variant: an entry that an add brings to <= 0 is dropped
add_item_store_pruning(d, item, qty) ==
  IF add_item_value(d, item, qty) <= 0
  THEN DictDel(d, item.s)
  ELSE DictSet(d, item.s, add_item_value(d, item, qty))

add_item_store(d, item, qty) == DictSet(d, item.s, add_item_value(d, item, qty))

add_item(item, qty) ==
  LET call == [NoCall EXCEPT !.op = "add", !.item = item, !.qty = qty]
  IN IF add_item_invalid_item(item) \/ add_item_invalid_qty(qty)
     THEN /\ last' = [call EXCEPT !.log = "warning"]
          /\ UNCHANGED <<stock_data, files, added>>
     ELSE /\ stock_data' = add_item_store(stock_data, item, qty)
          /\ last' = [call EXCEPT !.current = DictGet(stock_data, item.s, 0),
                                   !.audit = TRUE]
          /\ added' = [added EXCEPT ![item.s] =
                         IF @.on
                         THEN [on |-> TRUE, any |-> TRUE, sum |-> @.sum + qty.n]
                         ELSE @]
          /\ UNCHANGED files

(* ----------------------------- remove_item ----------------------------- *)

\* variant: the sign of qty is not tested
remove_invalid_qty_typeonly(qty) == ~isinstance_int(qty)

remove_invalid_qty(qty) == ~isinstance_int(qty) \/ qty.n < 0

\* variant: an entry brought to exactly 0 is kept
remove_deletes_strict(new_qty) == new_qty < 0

remove_deletes(new_qty) == new_qty <= 0

remove_item_store(d, k, qty) ==
  LET new_qty == DictGet(d, k, 0) - qty.n
  IN IF remove_deletes(new_qty) THEN DictDel(d, k) ELSE DictSet(d, k, new_qty)

remove_item(item, qty) ==
  LET call == [NoCall EXCEPT !.op = "remove", !.item = item, !.qty = qty]
  IN IF remove_invalid_qty(qty)
     THEN \* ValueError, caught by the except clause
          /\ last' = [call EXCEPT !.log = "exception"]
          /\ UNCHANGED <<stock_data, files, added>>
     ELSE IF Lookup(stock_data, item) = 0
     THEN /\ last' = [call EXCEPT !.log = "info"]
          /\ UNCHANGED <<stock_data, files, added>>
     ELSE /\ stock_data' = remove_item_store(stock_data, item.s, qty)
          /\ last' = [call EXCEPT !.current = DictGet(stock_data, item.s, 0)]
          /\ added' = [added EXCEPT ![item.s] =
                         IF DictHas(stock_data', item.s) THEN Void ELSE Fresh]
          /\ UNCHANGED files

(* ------------------------------- get_qty ------------------------------- *)

get_qty_result(d, item) ==
  IF Lookup(d, item) = 0
  THEN [outcome |-> "KeyError", retInt |-> 0]
  ELSE [outcome |-> "return", retInt |-> d[Lookup(d, item)].v]

get_qty(item) ==
  LET r == get_qty_result(stock_data, item)
  IN /\ last' = [NoCall EXCEPT !.op = "get", !.item = item,
                               !.outcome = r.outcome, !.retInt = r.retInt]
     /\ UNCHANGED <<stock_data, files, added>>

(* --------------------------- check_low_items --------------------------- *)

\* variant: the sign of threshold is not tested
check_low_invalid_typeonly(threshold) == ~isinstance_int(threshold)

check_low_invalid(threshold) == ~isinstance_int(threshold) \/ threshold.n < 0

\* variant: a quantity equal to the threshold counts as low
check_low_is_low_inclusive(qty, threshold) == qty <= threshold.n

check_low_is_low(qty, threshold) == qty < threshold.n

\* the for loop over stock_data.items(), from entry i on
RECURSIVE check_low_scan(_, _, _, _)
check_low_scan(d, threshold, i, result) ==
  IF i > Len(d) THEN result
  ELSE check_low_scan(d, threshold, i + 1,
         IF check_low_is_low(d[i].v, threshold) THEN Append(result, d[i].k) ELSE result)

check_low_items(threshold) ==
  LET call == [NoCall EXCEPT !.op = "low", !.threshold = threshold]
  IN /\ last' = IF check_low_invalid(threshold)
                THEN [call EXCEPT !.outcome = "ValueError"]
                ELSE [call EXCEPT !.retList = check_low_scan(stock_data, threshold, 1, <<>>)]
     /\ UNCHANGED <<stock_data, files, added>>

(* -------------------------- save_data, load_data ----------------------- *)

\* variant: names are trimmed when written
save_data_text_stripped(d) ==
  json_dump([i \in 1..Len(d) |-> [k |-> strip(d[i].k), v |-> d[i].v]])

save_data_text(d) == json_dump(d)

save_data(path) ==
  /\ files' = [files EXCEPT ![path] = [exists |-> TRUE, text |-> save_data_text(stock_data)]]
  /\ last' = [NoCall EXCEPT !.op = "save", !.path = path]
  /\ UNCHANGED <<stock_data, added>>

\* variant: the mapping is emptied before the file is read
load_data_failed_reset(d) == <<>>

\* the mapping left behind when open() or json.load() raises
load_data_failed(d) == d

load_data(path) ==
  \E call \in {[NoCall EXCEPT !.op = "load", !.path = path]},
     r \in {json_load(files[path].text)} :
     /\ IF ~files[path].exists
        THEN /\ stock_data' = load_data_failed(stock_data)
             /\ last' = [call EXCEPT !.outcome = "FileNotFoundError"]
             /\ UNCHANGED added
        ELSE IF ~r.ok
        THEN /\ stock_data' = load_data_failed(stock_data)
             /\ last' = [call EXCEPT !.outcome = "JSONDecodeError"]
             /\ UNCHANGED added
        ELSE /\ stock_data' = r.val
             /\ last' = call
             /\ added' = [k \in AllNames |-> IF DictHas(r.val, k) THEN Void ELSE Fresh]
     /\ UNCHANGED files

\* another program overwrites the file the next load_data will open
external_write(path, txt) ==
  /\ files' = [files EXCEPT ![path] = [exists |-> TRUE, text |-> txt]]
  /\ last' = [NoCall EXCEPT !.op = "external", !.path = path]
  /\ UNCHANGED <<stock_data, added>>

(* --------------------------- specifications ---------------------------- *)

Abs(n) == IF n < 0 THEN 0 - n ELSE n

\* add_item(item, qty) keeps the entry within max
AddWithin(item, qty, max) ==
  \/ ~isinstance_str(item)
  \/ ~isinstance_int(qty)
  \/ Abs(DictGet(stock_data, item.s, 0) + qty.n) <= max

AddStep == \E item \in Items, qty \in Qtys : AddWithin(item, qty, MaxQty) /\ add_item(item, qty)

RemoveStep == \E item \in Items, qty \in Qtys : remove_item(item, qty)

GetStep == \E item \in Items : get_qty(item)

LowStep == \E threshold \in Qtys : check_low_items(threshold)

SaveStep == \E path \in Paths : save_data(path)

LoadStep == \E path \in Paths : load_data(path)

ExternalStep == \E path \in Paths, txt \in Malformed : external_write(path, txt)

Next ==
  \/ AddStep
  \/ RemoveStep
  \/ GetStep
  \/ LowStep
  \/ SaveStep
  \/ LoadStep
  \/ ExternalStep

Spec == Init /\ [][Next]_vars

AddStepStore ==
  \E item \in ItemsStore, qty \in QtysStore :
    AddWithin(item, qty, MaxQtyStore) /\ add_item(item, qty)

RemoveStepStore == \E item \in ItemsStore, qty \in QtysStore : remove_item(item, qty)

GetStepStore == \E item \in ItemsStore : get_qty(item)

LowStepStore == \E threshold \in QtysStore : check_low_items(threshold)

NextStore ==
  \/ AddStepStore
  \/ RemoveStepStore
  \/ GetStepStore
  \/ LowStepStore

SpecStore == Init /\ [][NextStore]_vars

(* ------------------------------ properties ----------------------------- *)

\* C1: for a name that is non-empty after trimming, once it has been absent
\* and then only added to (no remove of it, no load), get_qty returns the sum
\* of the quantities added; after the first add that sum is its qty.
C1_GetIsSumOfAdds ==
  \A k \in AllNames :
    (strip(k) # <<>> /\ added[k].on /\ added[k].any)
      => get_qty_result(stock_data, PyStr(k))
           = [outcome |-> "return", retInt |-> added[k].sum]

\* a second or later add, of a negative quantity, to a name only added to so far
C1_Witness ==
  /\ last.op = "add" /\ last.audit
  /\ added[last.item.s].on
  /\ last.current # 0 /\ last.qty.n < 0
  /\ get_qty_result(stock_data, last.item).retInt = last.current + last.qty.n

\* C2: remove_item of a present item with a non-negative integer qty leaves
\* the entry at current - qty when that is > 0 and otherwise deletes the key,
\* so that get_qty then raises KeyError.
C2_RemoveUpdatesOrDeletes ==
  [][ (/\ last'.op = "remove"
       /\ last'.qty.t \in {"int", "bool"} /\ last'.qty.n >= 0
       /\ Lookup(stock_data, last'.item) # 0)
      => LET k == last'.item.s
             new == DictGet(stock_data, k, 0) - last'.qty.n
         IN IF new > 0
            THEN get_qty_result(stock_data', last'.item)
                   = [outcome |-> "return", retInt |-> new]
            ELSE /\ ~DictHas(stock_data', k)
                 /\ get_qty_result(stock_data', last'.item).outcome = "KeyError" ]_vars

\* a remove that brought a positive quantity to exactly 0 and deleted the key
C2_Witness ==
  /\ last.op = "remove" /\ last.log = "none"
  /\ last.current > 0 /\ last.qty.n = last.current
  /\ ~DictHas(stock_data, last.item.s)

\* C3: every key of the mapping is a non-empty string with no leading or
\* trailing whitespace.
C3_KeysTrimmedNonEmpty ==
  \A i \in 1..Len(stock_data) :
    /\ stock_data[i].k # <<>>
    /\ stock_data[i].k[1] \notin Whitespace
    /\ stock_data[i].k[Len(stock_data[i].k)] \notin Whitespace

\* C4: add_item with an item that is not a string, is empty or is made of
\* whitespace only, or with a qty that is not an integer, changes nothing in
\* the mapping and returns without raising.
C4_AddInvalidIsNoOp ==
  [][ (/\ last'.op = "add"
       /\ \/ last'.item.t # "str"
          \/ \A i \in 1..Len(last'.item.s) : last'.item.s[i] \in Whitespace
          \/ last'.qty.t \notin {"int", "bool"})
      => /\ stock_data' = stock_data
         /\ last'.outcome = "return" ]_vars

\* a whitespace-only name with an integer qty was rejected with a warning
C4_Witness ==
  /\ last.op = "add" /\ last.log = "warning"
  /\ last.item = PyStr(<<" ">>) /\ last.qty.t = "int"
  /\ stock_data # <<>> /\ ~DictHas(stock_data, <<" ">>)

\* C5: remove_item with a qty that is not a non-negative integer, or with an
\* item absent from the mapping, changes nothing in the mapping and returns
\* without raising.
C5_RemoveInvalidIsNoOp ==
  [][ (/\ last'.op = "remove"
       /\ \/ last'.qty.t \notin {"int", "bool"}
          \/ last'.qty.n < 0
          \/ Lookup(stock_data, last'.item) = 0)
      => /\ stock_data' = stock_data
         /\ last'.outcome = "return" ]_vars

\* remove_item(item, -1) on a present item was swallowed
C5_Witness ==
  /\ last.op = "remove" /\ last.log = "exception"
  /\ last.qty = PyInt(0 - 1)
  /\ Lookup(stock_data, last.item) # 0

\* C6: check_low_items with a non-negative integer threshold returns exactly
\* the names whose quantity is strictly below the threshold, in the order of
\* the mapping, and leaves the mapping unchanged.
C6_LowStockIsStrictFilter ==
  [][ (/\ last'.op = "low"
       /\ last'.threshold.t \in {"int", "bool"} /\ last'.threshold.n >= 0)
      => LET low == SelectSeq(stock_data, LAMBDA e : e.v < last'.threshold.n)
         IN /\ last'.outcome = "return"
            /\ last'.retList = [i \in 1..Len(low) |-> low[i].k]
            /\ stock_data' = stock_data ]_vars

\* the first entry sits exactly at the threshold and is left out, the second
\* has a quantity <= 0 made by add_item and is returned
C6_Witness ==
  /\ last.op = "low" /\ last.outcome = "return" /\ last.threshold.n > 0
  /\ Len(stock_data) = 2
  /\ stock_data[1].v = last.threshold.n
  /\ stock_data[2].v <= 0
  /\ last.retList = <<stock_data[2].k>>

\* C7: save_data immediately followed by load_data on the same path yields
\* the mapping that was saved: same keys, same values, same order.
C7_SaveLoadRoundTrip ==
  [][ (last.op = "save" /\ last'.op = "load" /\ last'.path = last.path)
      => /\ last'.outcome = "return"
         /\ stock_data' = stock_data ]_vars

\* a load that brought back two entries, one with a name that is not trimmed
\* and needs escaping, one with a negative quantity
C7_Witness ==
  /\ last.op = "load" /\ last.outcome = "return"
  /\ Len(stock_data) = 2
  /\ stock_data[1].k = <<" ", "\"">>
  /\ stock_data[2].v < 0
  /\ files[last.path].text = json_dump(stock_data)

\* C8: load_data of a missing or malformed file raises, and the mapping keeps
\* its contents.
C8_LoadFailureKeepsMapping ==
  [][ (/\ last'.op = "load"
       /\ \/ ~files[last'.path].exists
          \/ files[last'.path].text \in Malformed)
      => /\ last'.outcome \in {"FileNotFoundError", "JSONDecodeError"}
         /\ stock_data' = stock_data ]_vars

\* a load of a malformed file failed while the mapping held entries
C8_Witness ==
  /\ last.op = "load" /\ last.outcome = "JSONDecodeError"
  /\ files[last.path].text \in Malformed
  /\ Len(stock_data) = 2

\* C9: check_low_items with a threshold that is not a non-negative integer
\* raises ValueError to the caller, returns no list and leaves the mapping
\* unchanged.
C9_LowStockInvalidRaises ==
  [][ (/\ last'.op = "low"
       /\ \/ last'.threshold.t \notin {"int", "bool"}
          \/ last'.threshold.n < 0)
      => /\ last'.outcome = "ValueError"
         /\ last'.retList = <<>>
         /\ stock_data' = stock_data ]_vars

\* check_low_items(-1) raised while the mapping held a negative quantity
C9_Witness ==
  /\ last.op = "low" /\ last.outcome = "ValueError"
  /\ last.threshold = PyInt(0 - 1)
  /\ \E i \in 1..Len(stock_data) : stock_data[i].v < 0

\* C10: load aside, a present key becomes absent only by a remove_item of
\* that key whose current - qty is <= 0; and an add_item or remove_item of
\* one item changes neither the presence nor the quantity of another.
C10_OnlyRemoveDeletes ==
  [][ /\ \A i \in 1..Len(stock_data) :
           (~DictHas(stock_data', stock_data[i].k) /\ last'.op # "load")
             => /\ last'.op = "remove"
                /\ last'.item = PyStr(stock_data[i].k)
                /\ last'.qty.t \in {"int", "bool"} /\ last'.qty.n >= 0
                /\ stock_data[i].v - last'.qty.n <= 0
      /\ last'.op \in {"add", "remove"}
           => /\ \A i \in 1..Len(stock_data) :
                   last'.item # PyStr(stock_data[i].k)
                     => /\ DictHas(stock_data', stock_data[i].k)
                        /\ DictGet(stock_data', stock_data[i].k, 0) = stock_data[i].v
              /\ \A j \in 1..Len(stock_data') :
                   last'.item # PyStr(stock_data'[j].k)
                     => DictHas(stock_data, stock_data'[j].k) ]_vars

\* an add_item left its item present at a quantity <= 0, next to another entry
C10_Witness ==
  /\ last.op = "add" /\ last.audit
  /\ Len(stock_data) = 2
  /\ DictHas(stock_data, last.item.s)
  /\ DictGet(stock_data, last.item.s, 1) <= 0
  /\ last.qty.n <= 0

====
